---------------------------- MODULE Spec2Model ----------------------------
(***************************************************************************)
(* Model of smc_benchmark.read: the catalog builder read(), the error-log  *)
(* filter _read_error_log() and the per-institution readers _read_*().     *)
(*                                                                         *)
(* Strings are sequences of symbols; a symbol stands for a run of          *)
(* characters holding neither ':' nor white space (":" and " " are symbols *)
(* of their own).  Lengths (gap, displacement) are integers in hundredths  *)
(* of a millimetre, so 11.0 mm is 1100, 0.05 mm is 5 and 41.10 mm is 4110. *)
(***************************************************************************)
EXTENDS Integers, Sequences, FiniteSets, TLC

VARIABLES
    institution,            \* argument of read()
    mat_of_interest,        \* argument of read()
    spec_of_interest,       \* argument of read()
    skip_erroneous_files,   \* argument of read()
    folder_exists,          \* disk: folder.exists()
    dir_files,              \* disk: the files folder.glob() enumerates, in order
    error_log,              \* disk: folder / "error.log"
    sample,                 \* disk: the file handed to a reader called on its own
    pc,                     \* position in the running function
    exc,                    \* the exception that left the function, or None
    culprit,                \* index in dir_files of the file being processed at the raise
    erroneous_files,        \* local of read() / result of _read_error_log()
    pos,                    \* number of files the for loop has taken
    all_data,               \* local of read(): the catalog
    n_files_read,           \* local of read()
    pd_data,                \* local of read(): the last reader result
    returned,               \* the value read() returned, or None
    log_loaded,             \* whether _read_error_log() was called
    decoded,                \* indices of the files decode_filename() was called on
    parsed,                 \* indices of the files a reader was called on
    origin,                 \* for each catalog key, the index of the file stored there
    n_calls,                \* number of calls of read() begun on the directory
    first                   \* how the first of two calls ended, or None

args == <<institution, mat_of_interest, spec_of_interest, skip_erroneous_files>>
disk == <<folder_exists, dir_files, error_log, sample>>
locals == <<erroneous_files, pos, all_data, n_files_read, pd_data, log_loaded, decoded,
           parsed, origin>>
past == <<n_calls, first>>
vars == <<args, disk, past, pc, exc, culprit, locals, returned>>

None == "<None>"

Range(s) == {s[i] : i \in DOMAIN s}

\* what a function gave back: nothing yet, or the value v
NoValue == [has |-> FALSE]

Value(v) == [has |-> TRUE, value |-> v]

(***************************************************************************)
(* Bounds of the model.                                                    *)
(***************************************************************************)
MaxFiles == 2
MaxLogLines == 1
MaxLines == 3
MaxRows == 3

(***************************************************************************)
(* _naming.py                                                              *)
(***************************************************************************)
GAP == "h"
TIME == "t"
TEMP == "T"
FORCE == "F"
DISPLACEMENT == "d"

\* dict {0: TIME, 2: FORCE, 3: DISPLACEMENT, 4: GAP}: its values, in key order
KIT_NAMING == <<TIME, FORCE, DISPLACEMENT, GAP>>
UTW_NAMING == <<TIME, GAP, FORCE, "L1", "L2">>
KUL_NAMING == <<TIME, DISPLACEMENT, FORCE>>
JKU_NAMING == <<TIME, TEMP, GAP, DISPLACEMENT, FORCE>>
ECN_NAMING == <<TIME, FORCE, DISPLACEMENT, GAP, TEMP>>
RISE_NAMING == <<TIME, "Cycle Elapsed Time", "Total Cycles", "Elapsed Cycles", "Step",
                 "Total Cycle Count", DISPLACEMENT, FORCE, "None">>
TUM_NAMING == <<FORCE, GAP, DISPLACEMENT, TEMP>>
UOB_NAMING == <<TIME, "CycleElapsedTime_s_", "TotalCycles", "ElapsedCycles", "Step",
                "TotalCycleCount", GAP, FORCE>>
WMG_NAMING == <<TIME, GAP, "LVDT", FORCE, "P1", "P2", "P3", "P4", "P5">>
\* read.py imports IVW_NAMING from _naming, and _naming.py defines no such name
NotDefined == "<not defined>"
IVW_NAMING == NotDefined

(***************************************************************************)
(* read.py: configurations, institutions, number maps                      *)
(***************************************************************************)
CONFIG1 == "3mm 100x100"
CONFIG2 == "3mm 50x50"
CONFIG3 == "5mm 100x100"
CONFIG4 == "7mm 100x100"
CONFIG5 == "5mm 50x50"
CONFIG6 == "7mm 50x50"

KIT == "kit"
UTW == "utw"
KUL == "kul"
ECN == "ecn"
RISE == "rise"
TUM == "tum"
UOB == "uob"
WMG == "wmg"
JKU == "jku"
IVW == "ivw"

\* a dict literal is the sequence of its items, in insertion order
CONFIG_TO_NUMBER_KIT ==
    << <<CONFIG1, <<3, 7, 11, 15, 19, 23>> >>,
       <<CONFIG2, <<4, 8, 12, 16, 20, 24>> >>,
       <<CONFIG3, <<2, 6, 10, 14, 18, 22>> >>,
       <<CONFIG4, <<1, 5, 9, 13, 17, 21>> >> >>

CONFIG_TO_NUMBER_JKU ==
    << <<CONFIG1, <<4, 8, 12, 16, 20, 24>> >>,
       <<CONFIG2, <<3, 7, 11, 15, 19, 23>> >>,
       <<CONFIG5, <<2, 6, 10, 14, 18, 22>> >>,
       <<CONFIG6, <<1, 5, 9, 13, 17, 21>> >> >>

CONFIG_TO_NUMBER_UOB ==
    << <<CONFIG6, <<1, 5, 9, 13, 17, 21>> >>,
       <<CONFIG5, <<2, 6, 10, 14, 18, 22>> >>,
       <<CONFIG2, <<3, 7, 11, 15, 19, 23>> >> >>

CONFIG_TO_NUMBER_RISE ==
    << <<CONFIG2, <<3, 7, 11, 15, 19, 23>> >>,
       <<CONFIG5, <<2, 6, 10, 14, 18, 22>> >>,
       <<CONFIG6, <<1, 5, 9, 13, 17, 21>> >> >>

CONFIG_TO_NUMBER_TUM ==
    << <<CONFIG1, <<3, 7, 11, 15, 19, 20, 23>> >>,
       <<CONFIG2, <<4, 8, 12, 16, 24>> >>,
       <<CONFIG3, <<2, 6, 10, 14, 18, 22>> >>,
       <<CONFIG4, <<1, 5, 9, 13, 17, 21>> >> >>

\* Invert giving every number the label of the first item
InvertFirstItem(d) ==
    LET nums == UNION {Range(d[i][2]) : i \in DOMAIN d}
    IN [v \in nums |-> d[1][1]]

\* {v: k for k, values in d.items() for v in values}: a later item overwrites
Invert(d) ==
    LET nums == UNION {Range(d[i][2]) : i \in DOMAIN d}
        last(v) == CHOOSE i \in DOMAIN d :
                       /\ v \in Range(d[i][2])
                       /\ \A j \in DOMAIN d : v \in Range(d[j][2]) => j <= i
    IN [v \in nums |-> d[last(v)][1]]

NUMBER_TO_CONFIG_KIT == Invert(CONFIG_TO_NUMBER_KIT)
NUMBER_TO_CONFIG_JKU == Invert(CONFIG_TO_NUMBER_JKU)
NUMBER_TO_CONFIG_UOB == Invert(CONFIG_TO_NUMBER_UOB)
NUMBER_TO_CONFIG_RISE == Invert(CONFIG_TO_NUMBER_RISE)
NUMBER_TO_CONFIG_TUM == Invert(CONFIG_TO_NUMBER_TUM)

\* the keys of FILE_EXTENSION
Institutions == {KIT, UTW, KUL, ECN, RISE, TUM, UOB, WMG, JKU, IVW}

\* FILE_EXTENSION[institution], as the suffix the glob pattern asks for
FILE_EXTENSION(inst) ==
    CASE inst = KIT -> ".TXT"
      [] inst \in Institutions \ {KIT} -> ".csv"
      [] OTHER -> NotDefined

(***************************************************************************)
(* Strings                                                                 *)
(***************************************************************************)
\* str.lower() on one symbol
LowerSym(c) ==
    CASE c = "P" -> "p"
      [] c = "A" -> "a"
      [] c = "B" -> "b"
      [] c = ".TXT" -> ".txt"
      [] c = ".CSV" -> ".csv"
      [] OTHER -> c

\* str.lower()
Lower(s) == [i \in DOMAIN s |-> LowerSym(s[i])]

RECURSIVE LStrip(_)
LStrip(s) == IF s # <<>> /\ Head(s) = " " THEN LStrip(Tail(s)) ELSE s

RECURSIVE RStrip(_)
RStrip(s) ==
    IF s # <<>> /\ s[Len(s)] = " " THEN RStrip(SubSeq(s, 1, Len(s) - 1)) ELSE s

\* str.strip()
Strip(s) == RStrip(LStrip(s))

\* line.split(":")[0]
RECURSIVE SplitColonHead(_)
SplitColonHead(s) ==
    IF s = <<>> \/ Head(s) = ":" THEN <<>> ELSE <<Head(s)>> \o SplitColonHead(Tail(s))

(***************************************************************************)
(* _read_error_log                                                         *)
(***************************************************************************)
\* ErrorLogLine without the lower()
ErrorLogLineAsWritten(acc, line) ==
    IF ":" \notin Range(line)
    THEN acc
    ELSE LET filename == Strip(SplitColonHead(line))
         IN IF filename # <<>> THEN Append(acc, filename) ELSE acc

\* one iteration of the for loop over the lines
ErrorLogLine(acc, line) ==
    IF ":" \notin Range(line)
    THEN acc
    ELSE LET filename == Strip(SplitColonHead(line))
         IN IF filename # <<>> THEN Append(acc, Lower(filename)) ELSE acc

RECURSIVE ErrorLogLoop(_, _)
ErrorLogLoop(acc, lines) ==
    IF lines = <<>> THEN acc
    ELSE ErrorLogLoop(ErrorLogLine(acc, Head(lines)), Tail(lines))

\* file: [exists, readable, lines]; OSError / UnicodeDecodeError gives the empty list
_read_error_log(file) ==
    IF ~file.readable THEN <<>> ELSE ErrorLogLoop(<<>>, file.lines)

(***************************************************************************)
(* Data files and tables                                                   *)
(*                                                                         *)
(* A data file is [parse_ok, rows]: parse_ok says whether its bytes and    *)
(* fields fit the reader's encoding and column types, rows are its data    *)
(* rows as [h, d, F], the raw values under the columns the institution's   *)
(* naming calls gap, displacement and force (the other columns read 0).    *)
(* A reader gives Table(cols, rows), a DataFrame, or Raise(e).             *)
(***************************************************************************)
Raise(e) == [ok |-> FALSE, exc |-> e]

Table(cols, rows) == [ok |-> TRUE, cols |-> cols, rows |-> rows]

RawValue(c, r) ==
    CASE c = GAP -> r.h
      [] c = DISPLACEMENT -> r.d
      [] c = FORCE -> r.F
      [] OTHER -> 0

\* pd.read_csv(file, names=names, ...)
read_csv(file, names) ==
    IF ~file.parse_ok THEN Raise("ParserError")
    ELSE Table(names, [i \in DOMAIN file.rows |->
                          [c \in Range(names) |-> RawValue(c, file.rows[i])]])

\* data[c]
Col(data, c) == [i \in DOMAIN data.rows |-> data.rows[i][c]]

\* data[c] = vals: an existing column is overwritten, a new one is appended
SetCol(data, c, vals) ==
    Table(IF c \in Range(data.cols) THEN data.cols ELSE Append(data.cols, c),
          [i \in DOMAIN data.rows |->
              [k \in (DOMAIN data.rows[i]) \cup {c} |->
                  IF k = c THEN vals[i] ELSE data.rows[i][k]]])

\* the program's numbers, lengths in hundredths of a millimetre
GAP_LIMIT == 1100
KUL_OFFSET == 1100
UOB_OFFSET == 1100
TUM_OFFSET == 5
RISE_OFFSET == 4110
KILO == 1000

\* GapFilter dropping the rows at the limit too
GapFilterBelowLimit(data) ==
    Table(data.cols, SelectSeq(data.rows, LAMBDA r : r[GAP] < GAP_LIMIT))

\* data[data[GAP] <= 11.0].reset_index(drop=True)
GapFilter(data) ==
    Table(data.cols, SelectSeq(data.rows, LAMBDA r : r[GAP] <= GAP_LIMIT))

\* RecomputeDisplacement with the difference taken the other way round
RecomputeDisplacementFlipped(data) ==
    IF data.rows = <<>> THEN Raise("KeyError")
    ELSE SetCol(data, DISPLACEMENT,
                [i \in DOMAIN data.rows |-> data.rows[i][GAP] - data.rows[1][GAP]])

\* data[DISPLACEMENT] = data[GAP][0] - data[GAP]; data[GAP][0] fails on no row
RecomputeDisplacement(data) ==
    IF data.rows = <<>> THEN Raise("KeyError")
    ELSE SetCol(data, DISPLACEMENT,
                [i \in DOMAIN data.rows |-> data.rows[1][GAP] - data.rows[i][GAP]])

\* data[FORCE] *= k
ScaleForce(data, k) ==
    SetCol(data, FORCE, [i \in DOMAIN data.rows |-> data.rows[i][FORCE] * k])

(***************************************************************************)
(* The readers                                                             *)
(***************************************************************************)
\* np.loadtxt squeezes a one-row file to one dimension: indexing four entries
\* and building a four-column frame of them then fails; no row fails the index
_read_kit(file) ==
    IF ~file.parse_ok THEN Raise("ValueError")
    ELSE IF Len(file.rows) = 0 THEN Raise("IndexError")
    ELSE IF Len(file.rows) = 1 THEN Raise("ValueError")
    ELSE read_csv(file, KIT_NAMING)

_read_utw(file) ==
    LET data == read_csv(file, UTW_NAMING)
    IN IF ~data.ok THEN data
       ELSE RecomputeDisplacement(
                SetCol(data, GAP, [i \in DOMAIN data.rows |-> -data.rows[i][GAP]]))

_read_kul(file) ==
    LET data == read_csv(file, KUL_NAMING)
    IN IF ~data.ok THEN data
       ELSE LET scaled == ScaleForce(data, KILO)
            IN SetCol(scaled, GAP,
                      [i \in DOMAIN scaled.rows |->
                          KUL_OFFSET - scaled.rows[i][DISPLACEMENT]])

_read_jku(file) == read_csv(file, JKU_NAMING)

_read_tum(file) ==
    LET data == read_csv(file, TUM_NAMING)
    IN IF ~data.ok THEN data
       ELSE LET flipped == SetCol(data, GAP,
                               [i \in DOMAIN data.rows |-> data.rows[i][GAP] * (-1)])
                adjusted == SetCol(flipped, GAP,
                               [i \in DOMAIN flipped.rows |->
                                   flipped.rows[i][GAP] - TUM_OFFSET])
                kept == GapFilter(adjusted)
            IN IF kept.rows = <<>> THEN Raise("KeyError")
               ELSE SetCol(kept, DISPLACEMENT,
                        [i \in DOMAIN kept.rows |->
                            kept.rows[i][DISPLACEMENT] - kept.rows[1][DISPLACEMENT]])

_read_uob(file) ==
    LET data == read_csv(file, UOB_NAMING)
    IN IF ~data.ok THEN data
       ELSE LET scaled == ScaleForce(data, -KILO)
                shifted == SetCol(scaled, GAP,
                               [i \in DOMAIN scaled.rows |->
                                   scaled.rows[i][GAP] + UOB_OFFSET])
            IN RecomputeDisplacement(GapFilter(shifted))

_read_wmg(file) ==
    LET data == read_csv(file, WMG_NAMING)
    IN IF ~data.ok THEN data
       ELSE RecomputeDisplacement(ScaleForce(data, KILO))

_read_ecn(file) ==
    LET data == read_csv(file, ECN_NAMING)
    IN IF ~data.ok THEN data
       ELSE RecomputeDisplacement(GapFilter(data))

\* data[DISPLACEMENT].iloc[0] fails on no row
_read_rise(file) ==
    LET data == read_csv(file, RISE_NAMING)
    IN IF ~data.ok THEN data
       ELSE IF data.rows = <<>> THEN Raise("IndexError")
       ELSE LET scaled == ScaleForce(data, -KILO)
                gapped == SetCol(scaled, GAP,
                              [i \in DOMAIN scaled.rows |->
                                  RISE_OFFSET + (scaled.rows[i][DISPLACEMENT]
                                                 - scaled.rows[1][DISPLACEMENT])])
            IN RecomputeDisplacement(GapFilter(gapped))

\* names=IVW_NAMING: the name is not defined
_read_ivw(file) ==
    IF IVW_NAMING = NotDefined THEN Raise("NameError")
    ELSE LET data == read_csv(file, IVW_NAMING)
         IN IF ~data.ok THEN data ELSE ScaleForce(data, KILO)

\* the if / elif chain of read() that picks the reader
ReadIndividual(inst, file) ==
    CASE inst = KIT -> _read_kit(file)
      [] inst = UTW -> _read_utw(file)
      [] inst = KUL -> _read_kul(file)
      [] inst = JKU -> _read_jku(file)
      [] inst = ECN -> _read_ecn(file)
      [] inst = RISE -> _read_rise(file)
      [] inst = TUM -> _read_tum(file)
      [] inst = UOB -> _read_uob(file)
      [] inst = WMG -> _read_wmg(file)
      [] inst = IVW -> _read_ivw(file)
      [] OTHER -> Raise("ValueError")

(***************************************************************************)
(* decode_filename (smc_benchmark._utils): a stem is <<prefix.., material, *)
(* number>>; the number is the trailing run of digits, the material the    *)
(* token before it.  No integer suffix: DecodeError.                       *)
(***************************************************************************)
DigitRuns == {"3", "4", "20", "25"}

decode_filename(stem) ==
    IF Len(stem) >= 2 /\ stem[Len(stem)] \in DigitRuns
    THEN [ok |-> TRUE,
          prefix |-> SubSeq(stem, 1, Len(stem) - 2),
          material |-> stem[Len(stem) - 1],
          number |-> stem[Len(stem)]]
    ELSE Raise("DecodeError")

\* int(number)
IntOf(number) ==
    CASE number = "3" -> 3
      [] number = "4" -> 4
      [] number = "20" -> 20
      [] number = "25" -> 25

\* file.stem: the name without its suffix
Stem(name) == SubSeq(name, 1, Len(name) - 1)

(***************************************************************************)
(* read(): the steps of the function                                       *)
(***************************************************************************)
\* NumberToConfig with the KIT map for every institution
NumberToConfigKitOnly(inst) == NUMBER_TO_CONFIG_KIT

\* the if / elif chain that picks the number map of the institution
NumberToConfig(inst) ==
    CASE inst = JKU -> NUMBER_TO_CONFIG_JKU
      [] inst = UOB -> NUMBER_TO_CONFIG_UOB
      [] inst = RISE -> NUMBER_TO_CONFIG_RISE
      [] inst = TUM -> NUMBER_TO_CONFIG_TUM
      [] OTHER -> NUMBER_TO_CONFIG_KIT

\* IsErroneous comparing the name as it is
IsErroneousCaseSensitive(file) == file.name \in Range(erroneous_files)

\* file.name.lower() in erroneous_files
IsErroneous(file) == Lower(file.name) \in Range(erroneous_files)

\* NUMBER_TO_CONFIG_x[int(number)] raises KeyError
IsUnmapped(inst, number) == IntOf(number) \notin DOMAIN NumberToConfig(inst)

\* NotOfInterest with the specification filter lost
NotOfInterestMaterialOnly(material, specification) ==
    mat_of_interest \notin {None, ""} /\ material # mat_of_interest

\* the two filters; "if mat_of_interest:" is false for None and for ""
NotOfInterest(material, specification) ==
    \/ (mat_of_interest \notin {None, ""} /\ material # mat_of_interest)
    \/ (spec_of_interest \notin {None, ""} /\ spec_of_interest # specification)

\* AddExperiment creating the specification level anew on every call
AddExperimentResetsLevel(data, material, specification, number, table) ==
    LET d1 == IF material \notin DOMAIN data
              THEN (material :> <<>>) @@ data ELSE data
    IN [d1 EXCEPT ![material] = (specification :> (number :> table)) @@ @]

\* AddExperiment leaving a table that is already under the key where it is
AddExperimentKeepsFirst(data, material, specification, number, table) ==
    IF /\ material \in DOMAIN data
       /\ specification \in DOMAIN data[material]
       /\ number \in DOMAIN data[material][specification]
    THEN data
    ELSE LET d1 == IF material \in DOMAIN data
                   THEN data ELSE (material :> <<>>) @@ data
             d2 == IF specification \in DOMAIN d1[material]
                   THEN d1
                   ELSE [d1 EXCEPT ![material] = (specification :> <<>>) @@ @]
         IN [d2 EXCEPT ![material][specification] = (number :> table) @@ @]

\* all_data[material][specification][int(number)] = pd_data, the two levels
\* created when missing
AddExperiment(data, material, specification, number, table) ==
    LET d1 == IF material \notin DOMAIN data
              THEN (material :> <<>>) @@ data ELSE data
        d2 == IF specification \notin DOMAIN d1[material]
              THEN [d1 EXCEPT ![material] = (specification :> <<>>) @@ @] ELSE d1
    IN [d2 EXCEPT ![material][specification] = (number :> table) @@ @]

Current == dir_files[pos + 1]

InLoop == pc = "loop" /\ pos < Len(dir_files)

\* CheckFolder without the check
CheckFolderMissing ==
    /\ pc = "read"
    /\ pc' = "error_log"
    /\ UNCHANGED <<args, disk, past, exc, culprit, locals, returned>>

\* if not folder.exists(): raise FileNotFoundError
CheckFolder ==
    /\ pc = "read"
    /\ IF folder_exists
       THEN pc' = "error_log" /\ exc' = exc
       ELSE pc' = "raised" /\ exc' = "FileNotFoundError"
    /\ UNCHANGED <<args, disk, past, culprit, locals, returned>>

\* erroneous_files = _read_error_log(error_log_file), or []
LoadErrorLog ==
    /\ pc = "error_log"
    /\ IF skip_erroneous_files /\ error_log.exists
       THEN erroneous_files' = _read_error_log(error_log) /\ log_loaded' = TRUE
       ELSE erroneous_files' = <<>> /\ log_loaded' = log_loaded
    /\ pc' = "glob"
    /\ UNCHANGED <<args, disk, past, exc, culprit, pos, all_data, n_files_read, pd_data,
                   decoded, parsed, origin, returned>>

\* Glob with the enumeration taken up where the call before left it
GlobResumes ==
    /\ pc = "glob"
    /\ all_data' = <<>>
    /\ IF FILE_EXTENSION(institution) = NotDefined
       THEN pc' = "raised" /\ exc' = "KeyError" /\ n_files_read' = n_files_read
       ELSE pc' = "loop" /\ exc' = exc /\ n_files_read' = 0
    /\ UNCHANGED <<args, disk, past, culprit, erroneous_files, pos, pd_data,
                   log_loaded, decoded, parsed, origin, returned>>

\* all_data = {}; files = list(folder.glob(FILE_EXTENSION[institution]));
\* n_files_read = 0; for file in folder.glob(...): a new enumeration
Glob ==
    /\ pc = "glob"
    /\ all_data' = <<>>
    /\ IF FILE_EXTENSION(institution) = NotDefined
       THEN pc' = "raised" /\ exc' = "KeyError" /\ n_files_read' = n_files_read
                           /\ pos' = pos
       ELSE pc' = "loop" /\ exc' = exc /\ n_files_read' = 0 /\ pos' = 0
    /\ UNCHANGED <<args, disk, past, culprit, erroneous_files, pd_data, log_loaded,
                   decoded, parsed, origin, returned>>

\* the file is listed in error.log: continue
SkipErroneous ==
    /\ InLoop
    /\ IsErroneous(Current)
    /\ pos' = pos + 1
    /\ UNCHANGED <<args, disk, past, pc, exc, culprit, erroneous_files, all_data,
                   n_files_read, pd_data, log_loaded, decoded, parsed, origin, returned>>

\* decode_filename(file.stem) raises: the call is in no try block
DecodeRaises ==
    /\ InLoop
    /\ ~IsErroneous(Current)
    /\ ~decode_filename(Stem(Current.name)).ok
    /\ decoded' = decoded \cup {pos + 1}
    /\ pc' = "raised"
    /\ exc' = decode_filename(Stem(Current.name)).exc
    /\ culprit' = pos + 1
    /\ UNCHANGED <<args, disk, past, erroneous_files, pos, all_data, n_files_read, pd_data,
                   log_loaded, parsed, origin, returned>>

\* SkipUnmapped with the KeyError left uncaught
SkipUnmappedUncaught ==
    /\ InLoop
    /\ ~IsErroneous(Current)
    /\ LET dec == decode_filename(Stem(Current.name))
       IN /\ dec.ok
          /\ IsUnmapped(institution, dec.number)
    /\ decoded' = decoded \cup {pos + 1}
    /\ pc' = "raised"
    /\ exc' = "KeyError"
    /\ culprit' = pos + 1
    /\ UNCHANGED <<args, disk, past, erroneous_files, pos, all_data, n_files_read, pd_data,
                   log_loaded, parsed, origin, returned>>

\* except KeyError: print(...); continue
SkipUnmapped ==
    /\ InLoop
    /\ ~IsErroneous(Current)
    /\ LET dec == decode_filename(Stem(Current.name))
       IN /\ dec.ok
          /\ IsUnmapped(institution, dec.number)
    /\ decoded' = decoded \cup {pos + 1}
    /\ pos' = pos + 1
    /\ UNCHANGED <<args, disk, past, pc, exc, culprit, erroneous_files, all_data,
                   n_files_read, pd_data, log_loaded, parsed, origin, returned>>

\* material or specification is not the one of interest: continue
SkipNotOfInterest ==
    /\ InLoop
    /\ ~IsErroneous(Current)
    /\ LET dec == decode_filename(Stem(Current.name))
       IN /\ dec.ok
          /\ ~IsUnmapped(institution, dec.number)
          /\ NotOfInterest(dec.material, NumberToConfig(institution)[IntOf(dec.number)])
    /\ decoded' = decoded \cup {pos + 1}
    /\ pos' = pos + 1
    /\ UNCHANGED <<args, disk, past, pc, exc, culprit, erroneous_files, all_data,
                   n_files_read, pd_data, log_loaded, parsed, origin, returned>>

\* the reader raises: the call is in no try block
ReaderRaises ==
    /\ InLoop
    /\ ~IsErroneous(Current)
    /\ LET dec == decode_filename(Stem(Current.name))
       IN /\ dec.ok
          /\ ~IsUnmapped(institution, dec.number)
          /\ ~NotOfInterest(dec.material, NumberToConfig(institution)[IntOf(dec.number)])
    /\ ~ReadIndividual(institution, Current).ok
    /\ decoded' = decoded \cup {pos + 1}
    /\ parsed' = parsed \cup {pos + 1}
    /\ pc' = "raised"
    /\ exc' = ReadIndividual(institution, Current).exc
    /\ culprit' = pos + 1
    /\ UNCHANGED <<args, disk, past, erroneous_files, pos, all_data, n_files_read, pd_data,
                   log_loaded, origin, returned>>

\* the reader returns: the table is stored and counted
ReadFile ==
    /\ InLoop
    /\ ~IsErroneous(Current)
    /\ LET dec == decode_filename(Stem(Current.name))
       IN /\ dec.ok
          /\ ~IsUnmapped(institution, dec.number)
          /\ LET specification == NumberToConfig(institution)[IntOf(dec.number)]
                 table == ReadIndividual(institution, Current)
             IN /\ ~NotOfInterest(dec.material, specification)
                /\ table.ok
                /\ pd_data' = table
                /\ all_data' = AddExperiment(all_data, dec.material, specification,
                                             IntOf(dec.number), table)
                /\ origin' = (<<dec.material, specification, IntOf(dec.number)>>
                                 :> (pos + 1)) @@ origin
    /\ n_files_read' = n_files_read + 1
    /\ decoded' = decoded \cup {pos + 1}
    /\ parsed' = parsed \cup {pos + 1}
    /\ pos' = pos + 1
    /\ UNCHANGED <<args, disk, past, pc, exc, culprit, erroneous_files, log_loaded, returned>>

\* return all_data
Return ==
    /\ pc = "loop"
    /\ pos = Len(dir_files)
    /\ pc' = "done"
    /\ returned' = Value(all_data)
    /\ UNCHANGED <<args, disk, past, exc, culprit, locals>>

(***************************************************************************)
(* The inputs: directories, error logs, arguments                          *)
(***************************************************************************)
\* sequences of length at most n over S
SeqUpTo(S, n) == UNION {[1..k -> S] : k \in 0..n}

\* the sequences of SeqUpTo(S, n) that repeat no element
DistinctSeqUpTo(S, n) ==
    {q \in SeqUpTo(S, n) : \A i, j \in DOMAIN q : i # j => q[i] # q[j]}

\* two rows every reader keeps at least one of
Rows1 == << [h |-> -600, d |-> 600, F |-> 2], [h |-> -600, d |-> -3100, F |-> 2] >>

Rows2 == << [h |-> 0, d |-> 0, F |-> 3], [h |-> -600, d |-> -3100, F |-> 3] >>

\* one row, whose gap the range filters of ecn, uob and rise drop
Rows3 == << [h |-> 1200, d |-> 0, F |-> 2] >>

\* the suffix of the data files of an institution's directory
DirSuffix(inst) == IF inst = KIT THEN ".TXT" ELSE ".csv"

DataFile(stem, inst, parse_ok, rows) ==
    [name |-> stem \o <<DirSuffix(inst)>>, parse_ok |-> parse_ok, rows |-> rows]

\* the data files a directory is made of
DataFiles(inst) ==
    { DataFile(<<"p", "A", "3">>, inst, TRUE, Rows1),
      DataFile(<<"q", "A", "3">>, inst, TRUE, Rows2),
      DataFile(<<"P", "B", "4">>, inst, TRUE, Rows3),
      DataFile(<<"p", "B", "20">>, inst, TRUE, Rows1),
      DataFile(<<"p", "A", "25">>, inst, TRUE, Rows1),
      DataFile(<<"p", "A", "n">>, inst, TRUE, Rows1) }

\* lines of an error.log that name data files of the directory: the first in
\* another case, between blanks and with a second colon, and the file whose
\* name does not decode
FirstNamed(inst) ==
    <<" ", "P", "a", "3", LowerSym(DirSuffix(inst)), " ", ":", "msg", ":", "msg">>

NamingLines(inst) ==
    { FirstNamed(inst),
      <<"p", "A", "n", DirSuffix(inst), ":">> }

\* lines of an error.log, well-formed and not
AnyLines ==
    { <<"P", "A", ":", " ", "msg">>,
      <<" ", "p", " ", "b", " ", ":", "msg", ":", "msg">>,
      <<"q", ":">>,
      <<"msg">>,
      <<>>,
      <<" ", "msg", " ">>,
      <<":", "msg">>,
      <<" ", " ", ":", "q">> }

\* an institution read() has no reader for
Unregistered == "xyz"

NoLog == [exists |-> FALSE, readable |-> FALSE, lines |-> <<>>]

LogFile(readable, lines) == [exists |-> TRUE, readable |-> readable, lines |-> lines]

\* the error.log of a directory: none, one that cannot be read, or a readable
\* one; a call that does not skip erroneous files never opens it
ErrorLogs(inst, skip, n) ==
    IF skip
    THEN {NoLog} \cup {LogFile(TRUE, q) :
                            q \in DistinctSeqUpTo(NamingLines(inst), n)}
                 \cup {LogFile(FALSE, <<FirstNamed(inst)>>)}
    ELSE {NoLog, LogFile(TRUE, <<FirstNamed(inst)>>)}

NoFile == [parse_ok |-> FALSE, rows |-> <<>>]

NoTable == Raise(None)

\* the state before the first statement of read()
Fresh ==
    /\ exc = None
    /\ culprit = 0
    /\ erroneous_files = <<>>
    /\ pos = 0
    /\ all_data = <<>>
    /\ n_files_read = 0
    /\ pd_data = NoTable
    /\ returned = NoValue
    /\ log_loaded = FALSE
    /\ decoded = {}
    /\ parsed = {}
    /\ origin = <<>>
    /\ n_calls = 1
    /\ first = NoValue

Init ==
    /\ institution \in Institutions \cup {Unregistered}
    /\ mat_of_interest \in {None, "", "A"}
    /\ spec_of_interest \in {None, CONFIG1}
    /\ skip_erroneous_files \in BOOLEAN
    /\ folder_exists \in BOOLEAN
    /\ IF folder_exists
       THEN /\ dir_files \in DistinctSeqUpTo(DataFiles(institution), MaxFiles)
            /\ error_log \in ErrorLogs(institution, skip_erroneous_files, MaxLogLines)
       ELSE /\ dir_files = <<>>
            /\ error_log = NoLog
    /\ sample = NoFile
    /\ pc = "read"
    /\ Fresh

Next ==
    \/ CheckFolder
    \/ LoadErrorLog
    \/ Glob
    \/ SkipErroneous
    \/ DecodeRaises
    \/ SkipUnmapped
    \/ SkipNotOfInterest
    \/ ReaderRaises
    \/ ReadFile
    \/ Return

Spec == Init /\ [][Next]_vars

(***************************************************************************)
(* The error-log step of read() on its own: lines 142-147 and              *)
(* _read_error_log(), over error logs of any lines                         *)
(***************************************************************************)
InitLog ==
    /\ institution = KIT
    /\ mat_of_interest = None
    /\ spec_of_interest = None
    /\ skip_erroneous_files \in BOOLEAN
    /\ folder_exists = TRUE
    /\ dir_files = <<>>
    /\ error_log \in {NoLog} \cup
                     {LogFile(r, q) : r \in BOOLEAN, q \in SeqUpTo(AnyLines, MaxLines)}
    /\ sample = NoFile
    /\ pc = "error_log"
    /\ Fresh

NextLog == LoadErrorLog

SpecLog == InitLog /\ [][NextLog]_vars

(***************************************************************************)
(* A reader called on its own                                              *)
(***************************************************************************)
RawLengths == {-3100, -600, 600, 1200}

\* raw gaps: the third is at the limit of the ecn filter, the fourth above it
RawGaps == {-3100, -600, GAP_LIMIT, 1200}

RawRows == [h : RawGaps, d : RawLengths, F : {2}]

InitReader ==
    /\ institution \in Institutions
    /\ mat_of_interest = None
    /\ spec_of_interest = None
    /\ skip_erroneous_files = TRUE
    /\ folder_exists = TRUE
    /\ dir_files = <<>>
    /\ error_log = NoLog
    /\ sample \in {NoFile} \cup
                  {[parse_ok |-> TRUE, rows |-> q] : q \in SeqUpTo(RawRows, MaxRows)}
    /\ pc = "reader_call"
    /\ Fresh

CallReader ==
    /\ pc = "reader_call"
    /\ pd_data' = ReadIndividual(institution, sample)
    /\ pc' = IF pd_data'.ok THEN "reader_done" ELSE "reader_raised"
    /\ UNCHANGED <<args, disk, past, exc, culprit, erroneous_files, pos, all_data,
                   n_files_read, log_loaded, decoded, parsed, origin, returned>>

NextReader == CallReader

SpecReader == InitReader /\ [][NextReader]_vars

(***************************************************************************)
(* read() called twice with the same arguments on the same directory.      *)
(* Nothing of the first call is handed to the second but what the program  *)
(* keeps: the arguments and the disk.  The locals of read() are left as    *)
(* the first call left them, so the second call sees a fresh one only      *)
(* where the code assigns it before it reads it.                           *)
(***************************************************************************)
\* how a call ended: by return or by raise, with what
Outcome == [pc |-> pc, exc |-> exc, returned |-> returned]

\* the caller calls read() again
CallAgain ==
    /\ pc \in {"done", "raised"}
    /\ n_calls = 1
    /\ n_calls' = 2
    /\ first' = Value(Outcome)
    /\ pc' = "read"
    /\ exc' = None
    /\ returned' = NoValue
    /\ culprit' = 0
    /\ log_loaded' = FALSE
    /\ decoded' = {}
    /\ parsed' = {}
    /\ origin' = <<>>
    /\ UNCHANGED <<args, disk, erroneous_files, pos, all_data, n_files_read, pd_data>>

InitAgain ==
    /\ institution \in Institutions \cup {Unregistered}
    /\ mat_of_interest \in {None, "A"}
    /\ spec_of_interest = None
    /\ skip_erroneous_files = TRUE
    /\ folder_exists \in BOOLEAN
    /\ IF folder_exists
       THEN /\ dir_files \in DistinctSeqUpTo(DataFiles(institution), MaxFiles)
            /\ error_log \in {NoLog, LogFile(TRUE, <<FirstNamed(institution)>>)}
       ELSE /\ dir_files = <<>>
            /\ error_log = NoLog
    /\ sample = NoFile
    /\ pc = "read"
    /\ Fresh

NextAgain ==
    \/ Next
    \/ CallAgain

SpecAgain == InitAgain /\ [][NextAgain]_vars

(***************************************************************************)
(* Vocabulary of the properties                                            *)
(***************************************************************************)
Indices == DOMAIN dir_files

Decodes(i) == decode_filename(Stem(dir_files[i].name)).ok

MaterialOf(i) == decode_filename(Stem(dir_files[i].name)).material

NumberOf(i) == IntOf(decode_filename(Stem(dir_files[i].name)).number)

\* the CONFIG_TO_NUMBER table an institution resolves its numbers through
TableOf(inst) ==
    CASE inst = JKU -> CONFIG_TO_NUMBER_JKU
      [] inst = UOB -> CONFIG_TO_NUMBER_UOB
      [] inst = RISE -> CONFIG_TO_NUMBER_RISE
      [] inst = TUM -> CONFIG_TO_NUMBER_TUM
      [] OTHER -> CONFIG_TO_NUMBER_KIT

Labels == {CONFIG1, CONFIG2, CONFIG3, CONFIG4, CONFIG5, CONFIG6}

\* for each institution and sample number, the labels its table lists the
\* number under
LabelsOf ==
    [inst \in Institutions \cup {Unregistered} |->
        [n \in 0..25 |->
            {c \in Labels : \E k \in DOMAIN TableOf(inst) :
                                TableOf(inst)[k][1] = c
                                /\ n \in Range(TableOf(inst)[k][2])}]]

\* the table lists number n under the label c
Lists(inst, c, n) == n \in 0..25 /\ c \in LabelsOf[inst][n]

Mapped(i) == Decodes(i) /\ LabelsOf[institution][NumberOf(i)] # {}

ConfigOf(i) == CHOOSE c \in LabelsOf[institution][NumberOf(i)] : TRUE

KeyOf(i) == <<MaterialOf(i), ConfigOf(i), NumberOf(i)>>

\* the text before the first colon of a line, without the blanks around it
NameIn(line) ==
    LET colon == CHOOSE k \in DOMAIN line :
                     line[k] = ":" /\ \A j \in 1..(k - 1) : line[j] # ":"
        inked == {j \in 1..(colon - 1) : line[j] # " "}
    IN IF inked = {} THEN <<>>
       ELSE LET a == CHOOSE j \in inked : \A k \in inked : j <= k
                b == CHOOSE j \in inked : \A k \in inked : k <= j
            IN SubSeq(line, a, b)

\* the line is an entry: it has a colon and a filename before it
IsEntry(line) == ":" \in Range(line) /\ NameIn(line) # <<>>

\* two strings are equal up to case
SameUpToCase(a, b) ==
    /\ Len(a) = Len(b)
    /\ \A k \in DOMAIN a : LowerSym(a[k]) = LowerSym(b[k])

\* file i is named by an entry of the directory's error.log
Listed(i) ==
    \E k \in DOMAIN error_log.lines :
        /\ IsEntry(error_log.lines[k])
        /\ SameUpToCase(NameIn(error_log.lines[k]), dir_files[i].name)

MatFilter == mat_of_interest \notin {None, ""}

SpecFilter == spec_of_interest \notin {None, ""}

\* file i has the material and the configuration asked for
Matches(i) ==
    /\ MatFilter => MaterialOf(i) = mat_of_interest
    /\ SpecFilter => ConfigOf(i) = spec_of_interest

\* file i is a valid file: its name decodes, its number is mapped, its reader
\* returns a table
Valid(i) == Mapped(i) /\ ReadIndividual(institution, dir_files[i]).ok

\* read() skips file i for its error.log
Skipped(i) == skip_erroneous_files /\ error_log.readable /\ Listed(i)

\* a valid file that neither the error.log nor a filter excludes
Wanted(i) == Mapped(i) /\ Matches(i) /\ ~Skipped(i) /\ Valid(i)

\* the catalog c holds a table under the key
HasKey(c, key) ==
    /\ key[1] \in DOMAIN c
    /\ key[2] \in DOMAIN c[key[1]]
    /\ key[3] \in DOMAIN c[key[1]][key[2]]

\* the keys of the leaf tables of the catalog c
Leaves(c) ==
    UNION { UNION { {<<m, s, n>> : n \in DOMAIN c[m][s]} : s \in DOMAIN c[m] } :
            m \in DOMAIN c }

\* the catalog c holds file i: under the key of i it has the table of the last
\* wanted file of that key
Present(c, i) ==
    LET key == KeyOf(i)
        same == {j \in Indices : Mapped(j) /\ KeyOf(j) = key /\ Wanted(j)}
    IN /\ HasKey(c, key)
       /\ \E j \in same :
             /\ \A k \in same : k <= j
             /\ c[key[1]][key[2]][key[3]]
                    = ReadIndividual(institution, dir_files[j])

Done == pc = "done" /\ returned.has

(***************************************************************************)
(* C1: every per-file failure is caught and skips that file alone: read()  *)
(* is left by an exception only for a missing folder or an unknown         *)
(* institution, never while a file is in its reader or decoder, and it     *)
(* returns a catalog that holds every valid file of the directory.         *)
(***************************************************************************)
C1_PerFileFailureSkipsThatFileAlone ==
    /\ pc = "raised" => (culprit \notin parsed /\ culprit \notin decoded)
    /\ (folder_exists /\ institution \in Institutions) => pc # "raised"
    /\ Done => \A i \in Indices : Wanted(i) => Present(returned.value, i)

(***************************************************************************)
(* C2: a file whose decoded number has no entry in the institution's map   *)
(* is skipped: no reader is called on it, no catalog entry comes from it,  *)
(* it never makes read() raise; and the catalog read() returns holds every *)
(* valid file of the directory, before or after it.                        *)
(***************************************************************************)
C2_UnmappedFileIsSkipped ==
    /\ \A i \in Indices :
          (Decodes(i) /\ ~Mapped(i)) =>
              /\ i \notin parsed
              /\ i \notin Range(origin)
              /\ culprit # i
              /\ (pc = "loop" /\ pos >= i /\ ~Skipped(i)) => i \in decoded
    /\ Done => \A j \in Indices : Wanted(j) => Present(returned.value, j)

\* read() returned with an unmapped file enumerated first and a valid file
\* after it in the catalog
C2_Witness ==
    /\ Done
    /\ Len(dir_files) = 2
    /\ Decodes(1) /\ ~Mapped(1) /\ 1 \in decoded
    /\ Wanted(2) /\ Present(returned.value, 2)

(***************************************************************************)
(* C3 as stated: a file named by an entry of the directory's error.log is  *)
(* never in the catalog, is neither decoded nor parsed, and never makes    *)
(* read() raise.                                                           *)
(***************************************************************************)
C3_ListedFileNeverRead ==
    \A i \in Indices :
        Listed(i) =>
            /\ i \notin Range(origin)
            /\ i \notin decoded
            /\ i \notin parsed
            /\ culprit # i

(***************************************************************************)
(* C3 as amended: when read() is called with skip_erroneous_files true and *)
(* the error.log can be read, a file named by an entry of it (compared     *)
(* without case) is never in the catalog, is neither decoded nor parsed,   *)
(* and never makes read() raise.                                           *)
(***************************************************************************)
C3_SkippedFileNeverRead ==
    \A i \in Indices :
        (skip_erroneous_files /\ error_log.readable /\ Listed(i)) =>
            /\ i \notin Range(origin)
            /\ i \notin decoded
            /\ i \notin parsed
            /\ culprit # i
            /\ (pc = "loop" /\ pos >= i) => IsErroneous(dir_files[i])

\* read() returned past a listed file whose name does not decode, with the
\* valid file after it in the catalog
C3_Witness ==
    /\ Done
    /\ Len(dir_files) = 2
    /\ Skipped(1) /\ ~Decodes(1)
    /\ Wanted(2) /\ Present(returned.value, 2)

(***************************************************************************)
(* C4: on a folder that does not exist read() raises FileNotFoundError     *)
(* before any other step, whatever the institution: no error log is        *)
(* loaded, no file is taken, decoded or read, and nothing is returned.     *)
(***************************************************************************)
C4_MissingFolderRaisesFirst ==
    ~folder_exists =>
        /\ pc \in {"read", "raised"}
        /\ pc = "raised" => exc = "FileNotFoundError"
        /\ ~log_loaded
        /\ pos = 0
        /\ decoded = {}
        /\ parsed = {}
        /\ ~returned.has

\* the not-found error was raised for an institution that is not registered
C4_Witness ==
    /\ ~folder_exists
    /\ institution \notin Institutions
    /\ pc = "raised"
    /\ exc = "FileNotFoundError"

(***************************************************************************)
(* C5: with a material and/or a configuration filter, every entry of the   *)
(* catalog has that material and/or configuration, no reader is called on  *)
(* a file that does not match, and the returned catalog holds every valid  *)
(* file that matches.                                                      *)
(***************************************************************************)
C5_FilterKeepsOnlyTheMatch ==
    (MatFilter \/ SpecFilter) =>
        /\ \A key \in Leaves(all_data) :
              /\ MatFilter => key[1] = mat_of_interest
              /\ SpecFilter => key[2] = spec_of_interest
        /\ \A i \in Indices : (Mapped(i) /\ ~Matches(i)) => i \notin parsed
        /\ Done =>
              /\ returned.value = all_data
              /\ \A i \in Indices : Wanted(i) => Present(returned.value, i)

\* read() returned under both filters with the matching file in the catalog
\* and a valid file that does not match left unread
C5_Witness ==
    /\ Done
    /\ MatFilter /\ SpecFilter
    /\ Len(dir_files) = 2
    /\ Wanted(1) /\ Present(returned.value, 1)
    /\ Valid(2) /\ ~Matches(2) /\ 2 \in decoded /\ 2 \notin parsed

(***************************************************************************)
(* C6                                                                      *)
(***************************************************************************)
\* the directory holds valid files only, and neither a filter nor an error-log
\* entry excludes one
AllValidNoFilter ==
    /\ \A i \in Indices : Valid(i) /\ ~Listed(i)
    /\ ~MatFilter
    /\ ~SpecFilter

(***************************************************************************)
(* C6 as stated: on a directory of N valid files, with no filter and no    *)
(* error-log entry, read() ends with n_files_read = N and the returned     *)
(* catalog has N leaf tables.                                              *)
(***************************************************************************)
C6_LeafCountIsFileCount ==
    (Done /\ AllValidNoFilter) =>
        /\ n_files_read = Len(dir_files)
        /\ Cardinality(Leaves(returned.value)) = Len(dir_files)

(***************************************************************************)
(* C6 as amended: on such a directory read() ends with n_files_read = N,   *)
(* and the returned catalog has one leaf table for each distinct           *)
(* (material, configuration, sample number) the files decode to: N when no *)
(* two files decode to the same one.                                       *)
(***************************************************************************)
C6_LeafCountIsKeyCount ==
    (Done /\ AllValidNoFilter) =>
        /\ n_files_read = Len(dir_files)
        /\ Leaves(returned.value) = {KeyOf(i) : i \in Indices}
        /\ (\A i, j \in Indices : i # j => KeyOf(i) # KeyOf(j))
               => Cardinality(Leaves(returned.value)) = Len(dir_files)

\* read() returned from two valid files of two keys: two reads, two leaves
C6_Witness ==
    /\ Done
    /\ AllValidNoFilter
    /\ Len(dir_files) = 2
    /\ KeyOf(1) # KeyOf(2)
    /\ n_files_read = 2
    /\ Cardinality(Leaves(returned.value)) = 2

(***************************************************************************)
(* C9: the catalog is at all times material -> configuration label ->      *)
(* integer sample number -> table; each configuration key is the label the *)
(* institution's table lists the sample numbers under it with; no material *)
(* level and no configuration level is empty.                              *)
(***************************************************************************)
CatalogShape(c) ==
    \A m \in DOMAIN c :
        /\ m \in STRING
        /\ DOMAIN c[m] # {}
        /\ \A sp \in DOMAIN c[m] :
              /\ sp \in STRING
              /\ DOMAIN c[m][sp] # {}
              /\ \A n \in DOMAIN c[m][sp] :
                    /\ n \in Int
                    /\ Lists(institution, sp, n)
                    /\ c[m][sp][n].ok

C9_CatalogIsMaterialConfigNumber ==
    /\ CatalogShape(all_data)
    /\ returned.has => CatalogShape(returned.value)
    /\ Leaves(all_data) = DOMAIN origin

\* read() returned a catalog of two materials for an institution with a
\* number table of its own
C9_Witness ==
    /\ Done
    /\ institution = JKU
    /\ Cardinality(DOMAIN returned.value) = 2

(***************************************************************************)
(* C7: for every registered institution, the table its reader returns for  *)
(* a well-formed file has the gap column 'h' and the force column 'F'.     *)
(* The file here parses and has two rows, one of which every range filter  *)
(* keeps.                                                                  *)
(***************************************************************************)
C7_EveryReaderGivesGapAndForce ==
    (pc \in {"reader_done", "reader_raised"} /\ sample.parse_ok /\ sample.rows = Rows1) =>
        /\ pd_data.ok
        /\ {GAP, FORCE} \subseteq Range(pd_data.cols)

\* the same for the nine institutions whose naming _naming.py defines, on any
\* file their reader returns a table for
NineReadersGiveGapAndForce ==
    /\ pc = "reader_done" => {GAP, FORCE} \subseteq Range(pd_data.cols)
    /\ (pc = "reader_raised" /\ sample.parse_ok /\ sample.rows = Rows1)
           => institution = IVW

(***************************************************************************)
(* C8 as stated: in every table a reader returns, the displacement of each *)
(* row is non-negative and equals the gap of the first retained row minus  *)
(* the gap of the row.                                                     *)
(***************************************************************************)
C8_DisplacementIsGapDrop ==
    pc = "reader_done" =>
        \A i \in DOMAIN pd_data.rows :
            /\ pd_data.rows[i][DISPLACEMENT] >= 0
            /\ pd_data.rows[i][DISPLACEMENT]
                   = pd_data.rows[1][GAP] - pd_data.rows[i][GAP]

(***************************************************************************)
(* C8 as amended: in every table returned by the readers that recompute    *)
(* the displacement (utw, uob, wmg, ecn, rise), the displacement of each   *)
(* row equals the gap of the first retained row minus the gap of the row,  *)
(* so it is non-negative exactly on the rows whose gap does not exceed     *)
(* that initial gap.                                                       *)
(***************************************************************************)
C8_RecomputedDisplacementIsGapDrop ==
    (pc = "reader_done" /\ institution \in {UTW, UOB, WMG, ECN, RISE}) =>
        \A i \in DOMAIN pd_data.rows :
            /\ pd_data.rows[i][DISPLACEMENT]
                   = pd_data.rows[1][GAP] - pd_data.rows[i][GAP]
            /\ pd_data.rows[i][DISPLACEMENT] >= 0
                   <=> pd_data.rows[i][GAP] <= pd_data.rows[1][GAP]

\* a range-filtering reader dropped the first row of the file and returned two
\* rows, the gap falling from the first to the second
C8_Witness ==
    /\ pc = "reader_done"
    /\ institution = ECN
    /\ Len(sample.rows) = 3
    /\ Len(pd_data.rows) = 2
    /\ sample.rows[1].h > GAP_LIMIT
    /\ pd_data.rows[2][DISPLACEMENT] > 0

(***************************************************************************)
(* C10: the error-log step never fails and yields lowercase filenames      *)
(* only: no error.log, or one that cannot be read, gives the empty list; a *)
(* readable one gives, in order, the filename of each of its entries (the  *)
(* text before the first colon, stripped, in lower case), the lines with   *)
(* no colon or no filename contributing nothing.                           *)
(***************************************************************************)
C10_ErrorLogFilter ==
    (pc = "glob" /\ skip_erroneous_files) =>
        LET entries == SelectSeq(error_log.lines, IsEntry)
        IN /\ exc = None
           /\ (~error_log.exists \/ ~error_log.readable) => erroneous_files = <<>>
           /\ (error_log.exists /\ error_log.readable) =>
                  erroneous_files = [k \in DOMAIN entries |-> Lower(NameIn(entries[k]))]
           /\ \A k \in DOMAIN erroneous_files :
                  /\ erroneous_files[k] # <<>>
                  /\ \A j \in DOMAIN erroneous_files[k] :
                         LowerSym(erroneous_files[k][j]) = erroneous_files[k][j]

\* a log of an entry, a line that is none, and an entry was read: two names
C10_Witness ==
    /\ pc = "glob"
    /\ skip_erroneous_files
    /\ error_log.readable
    /\ Len(error_log.lines) = 3
    /\ IsEntry(error_log.lines[1])
    /\ ~IsEntry(error_log.lines[2])
    /\ IsEntry(error_log.lines[3])
    /\ Len(erroneous_files) = 2
    /\ erroneous_files[1] # NameIn(error_log.lines[1])

(***************************************************************************)
(* C11: two read() calls with the same arguments over an unchanged         *)
(* directory end the same way: the second returns a catalog of the same    *)
(* keys and the same tables as the first, or raises the same exception as  *)
(* the first; and while the second call runs, its catalog holds nothing    *)
(* but what it has itself read.                                            *)
(***************************************************************************)
C11_SecondCallEndsAsTheFirst ==
    n_calls = 2 =>
        /\ pc \in {"done", "raised"} => Outcome = first.value
        /\ pc = "loop" => Leaves(all_data) = DOMAIN origin

\* the second call returned a catalog of two tables, as the first had
C11_Witness ==
    /\ n_calls = 2
    /\ Done
    /\ first.value.returned = returned
    /\ Cardinality(Leaves(returned.value)) = 2

(***************************************************************************)
(* C12: when two or more ingested files of the directory decode to the     *)
(* same (material, configuration, sample number), the catalog holds one    *)
(* table under that key, the table of the file enumerated last among them; *)
(* the keys of the catalog are the keys of the ingested files, and no      *)
(* ingested file makes read() raise.                                       *)
(***************************************************************************)
\* the files read() has ingested so far: their reader returned a table
Ingested == {i \in parsed : Valid(i)}

C12_LastWriteWins ==
    /\ Leaves(all_data) = {KeyOf(i) : i \in Ingested}
    /\ \A key \in Leaves(all_data) :
          LET same == {i \in Ingested : KeyOf(i) = key}
              last == CHOOSE i \in same : \A j \in same : j <= i
          IN all_data[key[1]][key[2]][key[3]]
                 = ReadIndividual(institution, dir_files[last])
    /\ pc = "raised" => culprit \notin Ingested
    /\ Done => returned.value = all_data

\* read() returned from two files of one key and of different content: one
\* table, that of the second file
C12_Witness ==
    /\ Done
    /\ Len(dir_files) = 2
    /\ Ingested = {1, 2}
    /\ KeyOf(1) = KeyOf(2)
    /\ Leaves(returned.value) = {KeyOf(2)}
    /\ ReadIndividual(institution, dir_files[1])
           # ReadIndividual(institution, dir_files[2])
    /\ returned.value[KeyOf(2)[1]][KeyOf(2)[2]][KeyOf(2)[3]]
           = ReadIndividual(institution, dir_files[2])

(***************************************************************************)
(* C13: in each configuration table (KIT, JKU, UOB, RISE, TUM) a sample    *)
(* number is in the list of at most one configuration, and the inverted    *)
(* map is defined on exactly the listed numbers and gives each the         *)
(* configuration whose list holds it; jku, uob, rise and tum resolve their *)
(* numbers through their own inverted map, kit, utw, kul, ecn, wmg and ivw *)
(* through that of KIT, and each configuration key of the catalog is what  *)
(* that map gives the sample number under it.                              *)
(***************************************************************************)
\* each table with its inverted map
TablePairs ==
    { <<CONFIG_TO_NUMBER_KIT, NUMBER_TO_CONFIG_KIT>>,
      <<CONFIG_TO_NUMBER_JKU, NUMBER_TO_CONFIG_JKU>>,
      <<CONFIG_TO_NUMBER_UOB, NUMBER_TO_CONFIG_UOB>>,
      <<CONFIG_TO_NUMBER_RISE, NUMBER_TO_CONFIG_RISE>>,
      <<CONFIG_TO_NUMBER_TUM, NUMBER_TO_CONFIG_TUM>> }

\* the items of the table t that list the number n
ItemsListing(t, n) == {k \in DOMAIN t : n \in Range(t[k][2])}

EveryTableInverts ==
    \A p \in TablePairs :
        /\ DOMAIN p[2] \subseteq 0..25
        /\ \A n \in 0..25 :
              /\ Cardinality(ItemsListing(p[1], n)) <= 1
              /\ n \in DOMAIN p[2] <=> ItemsListing(p[1], n) # {}
              /\ \A k \in ItemsListing(p[1], n) : p[2][n] = p[1][k][1]

C13_NumbersResolveThroughTheTable ==
    /\ EveryTableInverts
    /\ institution = JKU => NumberToConfig(institution) = NUMBER_TO_CONFIG_JKU
    /\ institution = UOB => NumberToConfig(institution) = NUMBER_TO_CONFIG_UOB
    /\ institution = RISE => NumberToConfig(institution) = NUMBER_TO_CONFIG_RISE
    /\ institution = TUM => NumberToConfig(institution) = NUMBER_TO_CONFIG_TUM
    /\ institution \in {KIT, UTW, KUL, ECN, WMG, IVW}
           => NumberToConfig(institution) = NUMBER_TO_CONFIG_KIT
    /\ \A key \in Leaves(all_data) :
           /\ key[3] \in DOMAIN NumberToConfig(institution)
           /\ key[2] = NumberToConfig(institution)[key[3]]

\* read() returned for wmg with sample 20 under the configuration the KIT
\* table lists it with, which is not the one the TUM table lists it with
C13_Witness ==
    /\ Done
    /\ institution = WMG
    /\ HasKey(returned.value, <<"B", CONFIG2, 20>>)
    /\ NUMBER_TO_CONFIG_KIT[20] = CONFIG2
    /\ NUMBER_TO_CONFIG_TUM[20] = CONFIG1

(***************************************************************************)
(* C14: the table a reader returns for tum, uob, ecn or rise has exactly   *)
(* the rows of the file whose corrected gap is at most 11 mm, in file      *)
(* order: none above 11 mm is kept, none at or below is dropped.  The      *)
(* table a reader without a filter returns has every row of the file, in   *)
(* file order.                                                             *)
(***************************************************************************)
\* the gap the reader of the institution gives row i of the file
CorrectedGap(inst, rows, i) ==
    CASE inst = TUM -> (-rows[i].h) - TUM_OFFSET
      [] inst = UOB -> rows[i].h + UOB_OFFSET
      [] inst = RISE -> RISE_OFFSET + (rows[i].d - rows[1].d)
      [] inst = UTW -> -rows[i].h
      [] inst = KUL -> KUL_OFFSET - rows[i].d
      [] OTHER -> rows[i].h

RangeFiltered == {TUM, UOB, ECN, RISE}

\* the indices of the rows the reader is to keep, in file order
KeptIndices(inst, rows) ==
    IF inst \in RangeFiltered
    THEN SelectSeq([i \in DOMAIN rows |-> i],
                   LAMBDA i : CorrectedGap(inst, rows, i) <= GAP_LIMIT)
    ELSE [i \in DOMAIN rows |-> i]

C14_RangeFilterKeepsExactlyTheRowsInRange ==
    pc = "reader_done" =>
        LET kept == KeptIndices(institution, sample.rows)
        IN /\ Len(pd_data.rows) = Len(kept)
           /\ \A k \in DOMAIN kept :
                  pd_data.rows[k][GAP]
                      = CorrectedGap(institution, sample.rows, kept[k])
           /\ institution \in RangeFiltered =>
                  \A k \in DOMAIN pd_data.rows : pd_data.rows[k][GAP] <= GAP_LIMIT
           /\ institution \notin RangeFiltered =>
                  Len(pd_data.rows) = Len(sample.rows)

\* the ecn reader kept a row whose gap is 11 mm
C14_RowAtTheLimitIsKept ==
    /\ pc = "reader_done"
    /\ institution = ECN
    /\ \E k \in DOMAIN pd_data.rows : pd_data.rows[k][GAP] = GAP_LIMIT

\* the tum reader dropped the second of three rows, its corrected gap above
\* 11 mm, and returned the first and the third in that order
C14_Witness ==
    /\ pc = "reader_done"
    /\ institution = TUM
    /\ Len(sample.rows) = 3
    /\ CorrectedGap(TUM, sample.rows, 2) > GAP_LIMIT
    /\ Len(pd_data.rows) = 2
    /\ pd_data.rows[1][GAP] = CorrectedGap(TUM, sample.rows, 1)
    /\ pd_data.rows[2][GAP] = CorrectedGap(TUM, sample.rows, 3)
    /\ pd_data.rows[1][GAP] # pd_data.rows[2][GAP]

=============================================================================
